---- MODULE Spec2Model ----
(***************************************************************************)
(* Octasphere lab: triangulations of one eighth of the unit sphere         *)
(* (lib/triangulation.ts), the mesh built from them                        *)
(* (EighthSphereTriangulation in lab/src/index.ts) and the metrics autorun *)
(* of the lab.                                                             *)
(*                                                                         *)
(* Points are kept symbolic.  A grid point produced by a generator is the  *)
(* record [f, t, u, maps, pass]: the parametric function f applied to the  *)
(* parameters t and u (fractions <<numerator, denominator>>), followed by  *)
(* the map2 stages in maps; pass > 0 names the value a balance pass number *)
(* pass has put at this position.  Floating-point comparisons whose        *)
(* outcome depends on the numeric values (the two convergence tests) are   *)
(* inputs of the model.                                                    *)
(***************************************************************************)
EXTENDS Integers, Sequences, FiniteSets, TLC

\* Largest subdivision order explored.
MaxN == 3

\* ------------------------------------------------------------------------
\* lib/utils (not part of the sources at hand)

\* subdivide(from, to, n): the n+1 parameters from + (to-from)*idx/n,
\* idx = 0..n, each kept as the fraction <<idx, n>> of the way from..to.
subdivide(from, to, n) == [idx \in 1..(n + 1) |-> <<idx - 1, n>>]

\* map2(tr, g): g applied to every point of a 2-level array.
map2(tr, g(_)) == [r \in DOMAIN tr |-> [c \in DOMAIN tr[r] |-> g(tr[r][c])]]

\* ------------------------------------------------------------------------
\* lib/triangulation.ts: generators

DefaultRefinement == 1

\* f(t, u) for one of the parametric functions handed to triangulate
Eval(f, t, u) == [f |-> f, t |-> t, u |-> u, maps |-> << >>, pass |-> 0]

\* a map2 stage applied to a point
Stage(p, tag) == [p EXCEPT !.maps = Append(@, tag)]

triangulate_rowlen_bug(f, n, refinement) ==
  LET us == subdivide(0, 1, n)
  IN  [r \in 1..Len(us) |->
        LET ts == subdivide(0, 1, n * refinement)
        IN  [c \in 1..Len(ts) |-> Eval(f, ts[c], us[r])]]

triangulate(f, n, refinement) ==
  LET us == subdivide(0, 1, n)
  IN  [r \in 1..Len(us) |->
        LET ts == subdivide(0, 1, (n - (r - 1)) * refinement)
        IN  [c \in 1..Len(ts) |-> Eval(f, ts[c], us[r])]]

flat(n, refinement) == triangulate("flat", n, refinement)

collapsed(n, refinement) == triangulate("collapsed", n, refinement)

geodesics(n, refinement) == triangulate("geodesics", n, refinement)

parallels(n, refinement) == triangulate("parallels", n, refinement)

evenGeodesics(n, refinement) == triangulate("evenGeodesics", n, refinement)

sinWarp(p) == Stage(p, "sin")

normalize(p) == Stage(p, "normalize")

proj(p) == Stage(p, "proj")

sines(n) == map2(flat(n, DefaultRefinement), sinWarp)

sineBased(n) == map2(sines(n), normalize)

sineBased2(n) == map2(sines(n), proj)

\* asinBased: findSineRatio mapped over the flat grid; the value returned
\* for p is kept as the stage "findSineRatio" of p (the solver itself is
\* modelled step by step below).
findSineRatio(p) == Stage(p, "findSineRatio")

asinBased(n, refinement) == map2(flat(n, refinement), findSineRatio)

\* ------------------------------------------------------------------------
\* lib/triangulation.ts: balance / balanced

Max(S) == CHOOSE m \in S : \A x \in S : x <= m

\* Is <<i, j>> (0-based) the position of an element of the 2-level array t?
HasElem(t, i, j) == /\ i >= 0 /\ i < Len(t)
                    /\ j >= 0 /\ j < Len(t[i + 1])

\* t[i][j] (0-based)
Elem(t, i, j) == t[i + 1][j + 1]

\* mean(...vectors): the normalized sum of the vectors.  The result is
\* named after the point v it replaces and the number of balance passes
\* its value rests on.
mean(vectors, v) ==
  [v EXCEPT !.pass = 1 + Max({vectors[a].pass : a \in DOMAIN vectors})]

\* The positions whose points the callback of balance reads for (i, j),
\* in the order of the arguments of mean; << >> when v itself is returned.
balanceArgs_edge_bug(t, i, j) ==
  LET n == Len(t) - 1
      k == n - i - j
  IN  IF i = 0 THEN (IF j = 0 \/ k = 0 THEN << >>
                     ELSE << <<0, j - 1>>, <<0, j + 1>> >>)
      ELSE IF j = 0 THEN (IF i = 0 \/ k = 0 THEN << >>
                          ELSE << <<i - 1, 0>>, <<i + 1, 0>> >>)
      ELSE IF k = 0 THEN (IF i = 0 \/ j = 0 THEN << >>
                          ELSE << <<i - 1, j>>, <<i + 1, j - 1>> >>)
      ELSE << <<i + 1, j - 1>>, <<i + 1, j>>,
              <<i, j - 1>>, <<i, j + 1>>,
              <<i - 1, j>>, <<i - 1, j + 1>> >>

balanceArgs(t, i, j) ==
  LET n == Len(t) - 1
      k == n - i - j
  IN  IF i = 0 THEN (IF j = 0 \/ k = 0 THEN << >>
                     ELSE << <<0, j - 1>>, <<0, j + 1>> >>)
      ELSE IF j = 0 THEN (IF i = 0 \/ k = 0 THEN << >>
                          ELSE << <<i - 1, 0>>, <<i + 1, 0>> >>)
      ELSE IF k = 0 THEN (IF i = 0 \/ j = 0 THEN << >>
                          ELSE << <<i - 1, j + 1>>, <<i + 1, j - 1>> >>)
      ELSE << <<i + 1, j - 1>>, <<i + 1, j>>,
              <<i, j - 1>>, <<i, j + 1>>,
              <<i - 1, j>>, <<i - 1, j + 1>> >>

\* Does the callback of balance read a missing element at (i, j)?
\* (mean then fails with a TypeError in addInPlace.)
balanceThrows(t, i, j) ==
  \E a \in DOMAIN balanceArgs(t, i, j) :
     ~HasElem(t, balanceArgs(t, i, j)[a][1], balanceArgs(t, i, j)[a][2])

\* The point the callback of balance returns for (i, j).
balancePoint(t, i, j) ==
  LET args == balanceArgs(t, i, j)
      v    == Elem(t, i, j)
  IN  IF args = << >> THEN v
      ELSE mean([a \in DOMAIN args |->
                   IF HasElem(t, args[a][1], args[a][2])
                   THEN Elem(t, args[a][1], args[a][2]) ELSE v], v)

balance(t) ==
  [r \in DOMAIN t |-> [c \in DOMAIN t[r] |-> balancePoint(t, r - 1, c - 1)]]

\* Budget of balance passes in balanced.
MaxPasses == 100

\* distSqSumOf(a, b), for grids of the same shape: the sum of the squared
\* distances of corresponding points, kept as 0 when no point differs and
\* as 1 (some positive number) otherwise.
distSqSumOf(a, b) == IF a = b THEN 0 ELSE 1

\* balanced(n).  No point moving in a pass makes avgDist 0 and ends the
\* loop; otherwise the displacement test first succeeds in pass number
\* convAt (never, when convAt > MaxPasses).
RECURSIVE balancedLoop(_, _, _)
balancedLoop(t, r, convAt) ==
  IF r >= MaxPasses THEN t
  ELSE LET refined == balance(t)
       IN  IF distSqSumOf(t, refined) = 0 \/ r + 1 = convAt THEN refined
           ELSE balancedLoop(refined, r + 1, convAt)

balanced(n, convAt) == balancedLoop(sineBased(n), 0, convAt)

\* The registry: triangulationFns[name](n).
FnNames == {"flat", "sines", "collapsed", "geodesics", "evenGeodesics",
            "parallels", "sineBased", "sineBased2", "asinBased", "balanced"}

triangulationFns(name, n, convAt) ==
  CASE name = "flat"          -> flat(n, DefaultRefinement)
    [] name = "sines"         -> sines(n)
    [] name = "collapsed"     -> collapsed(n, DefaultRefinement)
    [] name = "geodesics"     -> geodesics(n, DefaultRefinement)
    [] name = "evenGeodesics" -> evenGeodesics(n, DefaultRefinement)
    [] name = "parallels"     -> parallels(n, DefaultRefinement)
    [] name = "sineBased"     -> sineBased(n)
    [] name = "sineBased2"    -> sineBased2(n)
    [] name = "asinBased"     -> asinBased(n, DefaultRefinement)
    [] name = "balanced"      -> balanced(n, convAt)

\* ------------------------------------------------------------------------
\* lib/triangulation.ts: the value of a point, as far as it is exact:
\* one of the unit vectors "ex", "ey", "ez", the origin "zero", or "other".

\* A parameter of subdivide(0, 1, n) that is exactly 0 (the single
\* parameter of subdivide(0, 1, 0) is its starting point), or exactly 1.
ParamIsFrom(fr) == fr[1] = 0

ParamIsTo(fr) == fr[1] = fr[2] /\ fr[2] # 0

\* lerp(a, b, t) and slerp(a, b, t): a at t = 0, b at t = 1, and a point
\* between them otherwise.
lerp(a, b, fr) ==
  IF a = b THEN a
  ELSE IF ParamIsFrom(fr) THEN a
  ELSE IF ParamIsTo(fr) THEN b
  ELSE "other"

slerp(a, b, fr) ==
  IF a = b THEN a
  ELSE IF ParamIsFrom(fr) THEN a
  ELSE IF ParamIsTo(fr) THEN b
  ELSE "other"

\* The parametric functions handed to triangulate, at (t, u).  normalize()
\* leaves a unit vector as it is.
ParametricValue_roles_bug(f, t, u) ==
  CASE f = "flat"          -> lerp(lerp("ex", "ey", t), "ez", u)
    [] f = "collapsed"     -> "zero"
    [] f = "geodesics"     -> lerp(lerp("ex", "ey", t), "ez", u)
    [] f = "parallels"     -> slerp(slerp("ex", "ey", t), "ez", u)
    [] f = "evenGeodesics" ->
         slerp(slerp("ex", "ez", u), slerp("ey", "ez", u), t)
    [] OTHER               -> "zero"

ParametricValue(f, t, u) ==
  CASE f = "flat"          -> lerp(lerp("ex", "ez", t), "ey", u)
    [] f = "collapsed"     -> "zero"
    [] f = "geodesics"     -> lerp(lerp("ex", "ez", t), "ey", u)
    [] f = "parallels"     -> slerp(slerp("ex", "ez", t), "ey", u)
    [] f = "evenGeodesics" ->
         slerp(slerp("ex", "ey", u), slerp("ez", "ey", u), t)
    [] OTHER               -> "zero"

\* A map2 stage applied to a value.  Each stage maps a unit vector of an
\* axis to itself: sin(TAU/4 * 1) = 1 and sin(0) = 0; normalize keeps a unit
\* vector; proj has lambda = (sqrt(2 * (-1) + 3) - 1) / 3 = 0; findSineRatio
\* starts from the sine-based guess, its offset is 0 there, and an update
\* with offset 0 leaves the guess as it is.
StageValue(val, tag) ==
  IF val \in {"ex", "ey", "ez"} THEN val
  ELSE IF val = "zero" /\ tag \in {"sin", "normalize"} THEN "zero"
  ELSE "other"

RECURSIVE StagesValue(_, _)
StagesValue(val, maps) ==
  IF maps = << >> THEN val
  ELSE StagesValue(StageValue(val, Head(maps)), Tail(maps))

\* The value of a grid point; what a balance pass has computed as a mean is
\* not known exactly.
PointValue(p) ==
  IF p.pass > 0 THEN "other"
  ELSE StagesValue(ParametricValue(p.f, p.t, p.u), p.maps)

\* ------------------------------------------------------------------------
\* lab/src/index.ts: class EighthSphereTriangulation

\* A typed array of len zeros, and the assignment arr[idx] = val, which
\* leaves the array alone when idx is not one of its indices.
ZeroArray(len) == [x \in 1..len |-> 0]

\* The point (0, 0, 0), and a vertex array that holds zeros only.
ZeroPoint == Eval("zero", <<0, 1>>, <<0, 1>>)

ZeroPoints(len) == [x \in 1..len |-> ZeroPoint]

SetAt(arr, idx, val) ==
  IF idx >= 0 /\ idx < Len(arr) THEN [arr EXCEPT ![idx + 1] = val] ELSE arr

\* Twice rowVertices(i): the product that the code halves.
rowVerticesTimes2_bug(steps, i) == i * (2 * steps + 1 - i)

rowVerticesTimes2(steps, i) == i * (2 * steps + 3 - i)

\* rowVertices(i) = i * (2 * steps + 3 - i) / 2
rowVertices(steps, i) == rowVerticesTimes2(steps, i) \div 2

nVertices(steps) == rowVertices(steps, steps + 1)

vtx(steps, i, j) == rowVertices(steps, i) + j

nTriangles(steps) == 6 * 2 + 12 * steps * 2 + 8 * steps * steps

\* triangle(vtxLocal): three writes into indices at vertexIdx
triangle(ind, vIdx, vtxLocal(_, _)) ==
  SetAt(SetAt(SetAt(ind, vIdx * 3 + 0, vtxLocal(0, 0)),
                         vIdx * 3 + 1, vtxLocal(0, 1)),
                         vIdx * 3 + 2, vtxLocal(1, 0))

\* The callback of row.forEach for the element (i, j): the index buffer and
\* vertexIdx after its (up to two) calls of triangle.
visitTriangles_bug(steps, ind, vIdx, i, j) ==
  LET up(u, v)   == vtx(steps, i - 1 + u, j + v)
      down(u, v) == vtx(steps, i - u, j - v)
      ind1  == IF i > 0 THEN triangle(ind, vIdx, up) ELSE ind
      vIdx1 == IF i > 0 THEN vIdx + 1 ELSE vIdx
      ind2  == IF i > 0 THEN triangle(ind1, vIdx1, down) ELSE ind1
      vIdx2 == IF i > 0 THEN vIdx1 + 1 ELSE vIdx1
  IN  [indices |-> ind2, vertexIdx |-> vIdx2]

visitTriangles_up_bug(steps, ind, vIdx, i, j) ==
  LET up(u, v)   == vtx(steps, i + u, j + v)
      down(u, v) == vtx(steps, i - u, j - v)
      ind1  == IF i > 0 THEN triangle(ind, vIdx, up) ELSE ind
      vIdx1 == IF i > 0 THEN vIdx + 1 ELSE vIdx
      ind2  == IF i > 0 /\ j > 0 THEN triangle(ind1, vIdx1, down) ELSE ind1
      vIdx2 == IF i > 0 /\ j > 0 THEN vIdx1 + 1 ELSE vIdx1
  IN  [indices |-> ind2, vertexIdx |-> vIdx2]

visitTriangles(steps, ind, vIdx, i, j) ==
  LET up(u, v)   == vtx(steps, i - 1 + u, j + v)
      down(u, v) == vtx(steps, i - u, j - v)
      ind1  == IF i > 0 THEN triangle(ind, vIdx, up) ELSE ind
      vIdx1 == IF i > 0 THEN vIdx + 1 ELSE vIdx
      ind2  == IF i > 0 /\ j > 0 THEN triangle(ind1, vIdx1, down) ELSE ind1
      vIdx2 == IF i > 0 /\ j > 0 THEN vIdx1 + 1 ELSE vIdx1
  IN  [indices |-> ind2, vertexIdx |-> vIdx2]

\* setVertexData(idx, normal, u, v), on arrays with one entry per vertex
setVertexData(nrm, uv, idx, normal, u, v) ==
  [normals |-> SetAt(nrm, idx, normal), uvs |-> SetAt(uv, idx, <<u, v>>)]

\* A vertex derived from a grid point: v3(...) of its coordinates.
\*   "id"                 the point itself
\*   "negX" "negY" "negZ" the point with that coordinate negated
\*   "cylX" "cylY" "cylZ" the point with that coordinate replaced by -1
Vertex(xf, p) == [xf |-> xf, of |-> p]

\* The three objects handed to renderAdjacent (k = 1, 2, 3): the grid
\* position each function reads for idx, and what it does to the point.
borderPos(k, steps, idx) ==
  CASE k = 1 -> <<0, idx>>
    [] k = 2 -> <<idx, 0>>
    [] k = 3 -> <<idx, steps - idx>>

spherePos(k, steps, idx) ==
  CASE k = 1 -> <<1, idx>>
    [] k = 2 -> <<idx, 1>>
    [] k = 3 -> <<idx, steps - idx - 1>>

sphereXf(k) == CASE k = 1 -> "negY" [] k = 2 -> "negZ" [] k = 3 -> "negX"

cylinderPos(k, steps, idx) ==
  CASE k = 1 -> <<0, idx>>
    [] k = 2 -> <<idx + 1, 0>>
    [] k = 3 -> <<idx, steps - idx>>

cylinderXf(k) == CASE k = 1 -> "cylY" [] k = 2 -> "cylZ" [] k = 3 -> "cylX"

AdjShapes == {"sphere", "cylinder"}

\* vtxFn[adjShape](idx): position read and transformation
outerPos(k, steps, adjShape, idx) ==
  IF adjShape = "sphere" THEN spherePos(k, steps, idx)
  ELSE cylinderPos(k, steps, idx)

outerXf(k, adjShape) ==
  IF adjShape = "sphere" THEN sphereXf(k) ELSE cylinderXf(k)

\* The three indices written for j > 0
stripTriangle_bug(j) == <<2 * (j - 1), 2 * j, 2 * j + 1>>

stripTriangle(j) == <<2 * (j - 1), 2 * j, 2 * j - 1>>

\* The for loop of renderAdjacent from j on.  st holds the strip's
\* positions (one entry per vertex; normals get the same values), its
\* indices, and failed, set when a function of vtxFn reads a missing
\* element of the triangulation (a TypeError ends the loop).
RECURSIVE renderAdjacentLoop(_, _, _, _, _, _)
renderAdjacentLoop(k, t, steps, adjShape, j, st) ==
  IF j > steps \/ st.failed THEN st
  ELSE
    LET bp == borderPos(k, steps, j)
        op == outerPos(k, steps, adjShape, j - 1)
    IN  IF ~HasElem(t, bp[1], bp[2]) THEN [st EXCEPT !.failed = TRUE]
        ELSE
          LET pos1 == SetAt(st.positions, 2 * j,
                            Vertex("id", Elem(t, bp[1], bp[2])))
          IN  IF j > 0
              THEN IF ~HasElem(t, op[1], op[2])
                   THEN [st EXCEPT !.positions = pos1, !.failed = TRUE]
                   ELSE renderAdjacentLoop(k, t, steps, adjShape, j + 1,
                          [st EXCEPT
                             !.positions =
                                SetAt(pos1, 2 * j - 1,
                                      Vertex(outerXf(k, adjShape),
                                             Elem(t, op[1], op[2]))),
                             !.indices =
                                SetAt(SetAt(SetAt(@,
                                   (j - 1) * 3 + 0, stripTriangle(j)[1]),
                                   (j - 1) * 3 + 1, stripTriangle(j)[2]),
                                   (j - 1) * 3 + 2, stripTriangle(j)[3])])
              ELSE renderAdjacentLoop(k, t, steps, adjShape, j + 1,
                                      [st EXCEPT !.positions = pos1])

renderAdjacent(k, t, steps, adjShape) ==
  renderAdjacentLoop(k, t, steps, adjShape, 0,
                     [positions |-> [x \in 1..(2 * steps + 1) |->
                                      Vertex("id", ZeroPoint)],
                      indices   |-> ZeroArray(steps * 3),
                      failed    |-> FALSE])

\* ------------------------------------------------------------------------
\* lab/src/index.ts: the metrics autorun

forwardNeighborOffsets == << <<1, -1>>, <<1, 0>>, <<0, 1>> >>

\* dihedralBend(p0, p1, p2, p3), kept as the four vertices it is taken of
dihedralBend(p0, p1, p2, p3) == <<p0, p1, p2, p3>>

\* The positions of the triangulation that the selection of va and vb
\* reads for the edge from (i, j) along (di, dj), first the one for va,
\* and the branch taken.
bendBranch_ge_bug(n, i, j, di, dj) ==
  LET ib == i - dj
      ja == j - di
      jb == j + di + dj
  IN  IF ib < 0 THEN "ib<0"
      ELSE IF ja < 0 THEN "ja<0"
      ELSE IF ib + jb >= n THEN "ib+jb>n"
      ELSE "inner"

bendBranch(n, i, j, di, dj) ==
  LET ib == i - dj
      ja == j - di
      jb == j + di + dj
  IN  IF ib < 0 THEN "ib<0"
      ELSE IF ja < 0 THEN "ja<0"
      ELSE IF ib + jb > n THEN "ib+jb>n"
      ELSE "inner"

bendReads(n, i, j, di, dj) ==
  LET ia == i + di + dj
      ja == j - di
      ib == i - dj
      jb == j + di + dj
      br == bendBranch(n, i, j, di, dj)
  IN  CASE br = "ib<0"    -> << <<1, j>> >>
        [] br = "ja<0"    -> << <<i, 1>> >>
        [] br = "ib+jb>n" -> << <<i, j - 1>> >>
        [] br = "inner"   -> << <<ia, ja>>, <<ib, jb>> >>

\* va and vb for the edge from (i, j) along (di, dj); every position of
\* bendReads is an element of t.
bendVertices(t, n, adjCyl, i, j, di, dj) ==
  LET br  == bendBranch(n, i, j, di, dj)
      rd  == bendReads(n, i, j, di, dj)
      v   == Elem(t, i, j)
      r1  == Elem(t, rd[1][1], rd[1][2])
  IN  CASE br = "ib<0" ->
             [va |-> Vertex("id", r1),
              vb |-> IF adjCyl THEN Vertex("cylY", v) ELSE Vertex("negY", r1)]
        [] br = "ja<0" ->
             [vb |-> Vertex("id", r1),
              va |-> IF adjCyl THEN Vertex("cylZ", v) ELSE Vertex("negZ", r1)]
        [] br = "ib+jb>n" ->
             [vb |-> Vertex("id", r1),
              va |-> IF adjCyl THEN Vertex("cylX", v) ELSE Vertex("negX", r1)]
        [] br = "inner" ->
             [va |-> Vertex("id", r1),
              vb |-> Vertex("id", Elem(t, rd[2][1], rd[2][2]))]

\* The callback of forwardNeighborOffsets.forEach for offset number o at
\* the element (i, j); acc holds sum0, dihedrals and failed (a TypeError).
metricsOffset(t, n, adjCyl, i, j, o, acc) ==
  LET di == forwardNeighborOffsets[o][1]
      dj == forwardNeighborOffsets[o][2]
      i_ == i + di
      j_ == j + dj
      k_ == n - i_ - j_
      rd == bendReads(n, i, j, di, dj)
  IN  IF acc.failed \/ ~(i_ >= 0 /\ j_ >= 0 /\ k_ >= 0) THEN acc
      ELSE IF ~HasElem(t, i_, j_) THEN [acc EXCEPT !.failed = TRUE]
      ELSE IF \E a \in DOMAIN rd : ~HasElem(t, rd[a][1], rd[a][2])
           THEN [acc EXCEPT !.sum0 = @ + 1, !.failed = TRUE]
      ELSE LET vs == bendVertices(t, n, adjCyl, i, j, di, dj)
           IN  [acc EXCEPT
                  !.sum0 = @ + 1,
                  !.dihedrals = Append(@,
                     [bend |-> dihedralBend(Vertex("id", Elem(t, i, j)), vs.va,
                                            Vertex("id", Elem(t, i_, j_)), vs.vb),
                      i |-> i, j |-> j, i_ |-> i_, j_ |-> j_])]

\* The callback of row.forEach of the metrics: the three offsets in order.
metricsVisit(t, n, adjCyl, i, j, acc) ==
  metricsOffset(t, n, adjCyl, i, j, 3,
    metricsOffset(t, n, adjCyl, i, j, 2,
      metricsOffset(t, n, adjCyl, i, j, 1, acc)))

\* ------------------------------------------------------------------------
\* findSineRatio and balanced as state machines

VARIABLES
  fsPc,        \* findSineRatio: "idle", "loop" or "returned"
  fsP,         \* its argument p
  fsGuess,     \* guess: the estimate seeded from p, and the number of
               \* updates done to it
  fsI,         \* the loop counter i
  fsTests,     \* outcomes of offset.length() < 1e-10 in this call, in order
  fsWarnings,  \* number of console.warn calls in this call
  fsResult     \* the value returned

solverVars == <<fsPc, fsP, fsGuess, fsI, fsTests, fsWarnings, fsResult>>

VARIABLES
  bPc,         \* balanced: "idle", "loop", "returned" or "thrown"
  bN,          \* its argument n
  bT,          \* t
  bR,          \* the loop counter r
  bPrev,       \* t before the last pass
  bTests,      \* outcomes of avgDist < 1e-8 in this call, in order
  bWarnings,   \* number of console.warn calls in this call
  bResult      \* the value returned

balancedVars == <<bPc, bN, bT, bR, bPrev, bTests, bWarnings, bResult>>

VARIABLES
  hPc,         \* balanced, object by object: "idle", "loop" (at r < 100),
               \* "pass" (in balance(t)), "test" (balance has returned),
               \* "returned" or "thrown"
  hN,          \* its argument n
  hHeap,       \* the Vector3 objects created so far: address -> value
  hT,          \* t: rows of addresses
  hRefined,    \* the rows t.map has built so far, the last one in the making
  hI, hJ,      \* position of the element the callback of balance is at
  hR,          \* the loop counter r
  hResult      \* the value returned: rows of addresses

heapVars == <<hPc, hN, hHeap, hT, hRefined, hI, hJ, hR, hResult>>

libVars == <<solverVars, balancedVars, heapVars>>

HeapIdle ==
  /\ hPc = "idle"
  /\ hN = 0
  /\ hHeap = << >>
  /\ hT = << >>
  /\ hRefined = << >>
  /\ hI = 0 /\ hJ = 0
  /\ hR = 0
  /\ hResult = << >>

SolverIdle ==
  /\ fsPc = "idle"
  /\ fsP = ZeroPoint
  /\ fsGuess = [seed |-> ZeroPoint, updates |-> 0]
  /\ fsI = 0
  /\ fsTests = << >>
  /\ fsWarnings = 0
  /\ fsResult = [seed |-> ZeroPoint, updates |-> 0]

BalancedIdle ==
  /\ bPc = "idle"
  /\ bN = 0
  /\ bT = << >>
  /\ bR = 0
  /\ bPrev = << >>
  /\ bTests = << >>
  /\ bWarnings = 0
  /\ bResult = << >>

\* Iteration budget of findSineRatio.
MaxIterations == 30

\* The points findSineRatio is called with: those of the flat grids.
FlatPoints ==
  UNION {UNION {{flat(n, DefaultRefinement)[r][c] :
                   c \in DOMAIN flat(n, DefaultRefinement)[r]} :
                r \in DOMAIN flat(n, DefaultRefinement)} :
         n \in 0..MaxN}

VARIABLES
  nSteps,          \* observable nSteps
  triangFn,        \* observable triangFn
  adjacentShape,   \* observable adjacentShape
  displayMode,     \* observable displayMode
  convergeAt,      \* the pass of balanced(nSteps) whose displacement test
                   \* succeeds first while points still move
  pc,              \* what runs next
  metricsPending,  \* the metrics autorun is still to run in this reaction
  tracksDisplay,   \* the metrics autorun observes displayMode
  est,             \* the variable est: "undefined", "live" or "disposed"
  liveEst,         \* number of EighthSphereTriangulation meshes not disposed
  triangulation,   \* the constructor's triangulation
  vi, vj,          \* element the constructor's forEach visits next
  normals, uvs,    \* the constructor's vertex arrays, one entry per vertex
  indices,         \* the constructor's Uint32Array indices
  vertexIdx,       \* the constructor's vertexIdx
  mesh,            \* what applyToMesh(this) received
  adjK,            \* number of renderAdjacent calls done
  adj,             \* the meshes built by renderAdjacent
  estErr,          \* error thrown out of the est autorun
  mTriangulation,  \* the metrics autorun's triangulation
  mi, mj,          \* element the metrics' forEach visits next
  sum0,            \* the metrics' sum0
  dihedrals,       \* the metrics' dihedrals
  mostBentEdges,   \* number of tubes in the array mostBentEdges
  liveTubes,       \* number of "mostBentEdge" tubes not disposed
  metricsErr       \* error thrown out of the metrics autorun

appVars == <<nSteps, triangFn, adjacentShape, displayMode, convergeAt, pc,
             metricsPending, tracksDisplay, est, liveEst, triangulation,
             vi, vj, normals, uvs, indices, vertexIdx, mesh, adjK, adj,
             estErr, mTriangulation, mi, mj, sum0, dihedrals, mostBentEdges,
             liveTubes, metricsErr>>

DisplayModes == {"wireframe", "polyhedron", "smooth"}

\* Outcomes of the displacement test explored: success in the first pass,
\* and in the third.
ConvergeAtValues == {1, 3}

\* convergeAt is consulted by balanced only
ConvergeAtFor(fn) == IF fn = "balanced" THEN ConvergeAtValues ELSE {1}

NoMesh == [positions |-> << >>, normals |-> << >>, uvs |-> << >>,
           indices |-> << >>, applied |-> FALSE]

\* The state before the first autorun has run, but for the observables
\* and pc.
AppFresh ==
  /\ metricsPending = TRUE
  /\ tracksDisplay = FALSE
  /\ est = "undefined"
  /\ liveEst = 0
  /\ triangulation = << >>
  /\ vi = 0 /\ vj = 0
  /\ normals = << >> /\ uvs = << >>
  /\ indices = << >>
  /\ vertexIdx = 0
  /\ mesh = NoMesh
  /\ adjK = 0
  /\ adj = << >>
  /\ estErr = "none"
  /\ mTriangulation = << >>
  /\ mi = 0 /\ mj = 0
  /\ sum0 = 0
  /\ dihedrals = << >>
  /\ mostBentEdges = 0
  /\ liveTubes = 0
  /\ metricsErr = "none"

AppInit ==
  /\ nSteps \in 0..MaxN
  /\ triangFn \in FnNames
  /\ adjacentShape \in AdjShapes
  /\ displayMode \in DisplayModes
  /\ convergeAt \in ConvergeAtFor(triangFn)
  /\ pc = "est"
  /\ AppFresh

\* The lab not running (findSineRatio or balanced taken alone).
AppOff ==
  /\ nSteps = 0
  /\ triangFn = "flat"
  /\ adjacentShape = "sphere"
  /\ displayMode = "polyhedron"
  /\ convergeAt = 1
  /\ pc = "off"
  /\ AppFresh

metricsVars == <<mTriangulation, mi, mj, sum0, dihedrals, mostBentEdges,
                 liveTubes, metricsErr, tracksDisplay>>

paramVars == <<nSteps, triangFn, adjacentShape, displayMode, convergeAt>>

\* After the est autorun: the metrics autorun if it is due.
AfterEst == IF metricsPending THEN "metrics" ELSE "idle"

\* est autorun, up to the forEach of the constructor: est?.dispose(), the
\* Mesh constructor, the buffers, triangulationFn(steps).
EstConstruct ==
  /\ pc = "est"
  /\ UNCHANGED libVars
  /\ est' = IF est = "live" THEN "disposed" ELSE est
  /\ liveEst' = (IF est = "live" THEN liveEst - 1 ELSE liveEst) + 1
  /\ triangulation' = triangulationFns(triangFn, nSteps, convergeAt)
  /\ normals' = ZeroPoints(nVertices(nSteps))
  /\ uvs' = [x \in 1..nVertices(nSteps) |-> <<0, 0>>]
  /\ indices' = ZeroArray(nTriangles(nSteps) * 3)
  /\ vertexIdx' = 0
  /\ vi' = 0 /\ vj' = 0
  /\ mesh' = NoMesh
  /\ adjK' = 0
  /\ adj' = << >>
  /\ estErr' = "none"
  /\ pc' = IF Len(triangulation') = 0 THEN "apply" ELSE "loop"
  /\ UNCHANGED <<paramVars, metricsPending, metricsVars>>

\* One call of the callback of row.forEach (element (vi, vj)).
EstVisit ==
  /\ pc = "loop"
  /\ UNCHANGED libVars
  /\ LET v   == Elem(triangulation, vi, vj)
         vd  == setVertexData(normals, uvs, vtx(nSteps, vi, vj), v,
                              <<2 * vj + vi, 2 * nSteps>>, <<vi, nSteps>>)
         tr  == visitTriangles(nSteps, indices, vertexIdx, vi, vj)
         last == vj + 1 >= Len(triangulation[vi + 1])
     IN  /\ normals' = vd.normals
         /\ uvs' = vd.uvs
         /\ indices' = tr.indices
         /\ vertexIdx' = tr.vertexIdx
         /\ vi' = IF last THEN vi + 1 ELSE vi
         /\ vj' = IF last THEN 0 ELSE vj + 1
         /\ pc' = IF last /\ vi + 1 >= Len(triangulation) THEN "apply"
                  ELSE "loop"
  /\ UNCHANGED <<paramVars, metricsPending, metricsVars, est, liveEst,
                 triangulation, mesh, adjK, adj, estErr>>

\* vertexData ... applyToMesh(this)
EstApply ==
  /\ pc = "apply"
  /\ UNCHANGED libVars
  /\ mesh' = [positions |-> normals,
              normals   |-> IF displayMode # "polyhedron" THEN normals
                            ELSE << >>,
              uvs       |-> uvs,
              indices   |-> indices,
              applied   |-> TRUE]
  /\ pc' = "adjacent"
  /\ UNCHANGED <<paramVars, metricsPending, metricsVars, est, liveEst,
                 triangulation, vi, vj, normals, uvs, indices, vertexIdx,
                 adjK, adj, estErr>>

\* One call of renderAdjacent; after the third the constructor returns and
\* the autorun assigns est.  A TypeError leaves the autorun.
EstRenderAdjacent ==
  /\ pc = "adjacent"
  /\ UNCHANGED libVars
  /\ LET st == renderAdjacent(adjK + 1, triangulation, nSteps, adjacentShape)
     IN  IF st.failed
         THEN /\ estErr' = "TypeError"
              /\ pc' = AfterEst
              /\ UNCHANGED <<adjK, adj, est>>
         ELSE /\ adj' = Append(adj, [positions |-> st.positions,
                                     normals   |-> st.positions,
                                     indices   |-> st.indices])
              /\ adjK' = adjK + 1
              /\ est' = IF adjK + 1 = 3 THEN "live" ELSE est
              /\ pc' = IF adjK + 1 = 3 THEN AfterEst ELSE "adjacent"
              /\ UNCHANGED estErr
  /\ UNCHANGED <<paramVars, metricsPending, metricsVars, liveEst,
                 triangulation, vi, vj, normals, uvs, indices, vertexIdx,
                 mesh>>

estVars == <<est, liveEst, triangulation, vi, vj, normals, uvs, indices,
             vertexIdx, mesh, adjK, adj, estErr>>

\* metrics autorun, up to its forEach
MetricsStart ==
  /\ pc = "metrics"
  /\ UNCHANGED libVars
  /\ mTriangulation' = triangulationFns(triangFn, nSteps, convergeAt)
  /\ sum0' = 0
  /\ dihedrals' = << >>
  /\ mi' = 0 /\ mj' = 0
  /\ metricsErr' = "none"
  /\ tracksDisplay' = FALSE
  /\ metricsPending' = FALSE
  /\ pc' = IF Len(mTriangulation') = 0 THEN "mfinish" ELSE "mloop"
  /\ UNCHANGED <<paramVars, estVars, mostBentEdges, liveTubes>>

\* One call of the callback of row.forEach of the metrics (element (mi, mj)).
\* A TypeError leaves the autorun.
MetricsVisit ==
  /\ pc = "mloop"
  /\ UNCHANGED libVars
  /\ LET acc == metricsVisit(mTriangulation, nSteps,
                             adjacentShape = "cylinder", mi, mj,
                             [sum0 |-> sum0, dihedrals |-> dihedrals,
                              failed |-> FALSE])
         last == mj + 1 >= Len(mTriangulation[mi + 1])
     IN  IF acc.failed
         THEN /\ metricsErr' = "TypeError"
              /\ pc' = "idle"
              /\ mTriangulation' = << >>
              /\ sum0' = 0
              /\ dihedrals' = << >>
              /\ mi' = 0 /\ mj' = 0
         ELSE /\ sum0' = acc.sum0
              /\ dihedrals' = acc.dihedrals
              /\ mi' = IF last THEN mi + 1 ELSE mi
              /\ mj' = IF last THEN 0 ELSE mj + 1
              /\ pc' = IF last /\ mi + 1 >= Len(mTriangulation)
                       THEN "mfinish" ELSE "mloop"
              /\ UNCHANGED <<metricsErr, mTriangulation>>
  /\ UNCHANGED <<paramVars, estVars, metricsPending, mostBentEdges,
                 liveTubes, tracksDisplay>>

\* mostBentEdges.forEach(e => e.dispose()) and mostBentEdges = ...: the
\* number of tubes not disposed, of which old were in the array before and
\* new are created.
TubesAfterUpdate_no_dispose_bug(live, old, new) == live + new

TubesAfterUpdate(live, old, new) == (live - old) + new

\* The rest of the metrics autorun: statistics, sort, dihedrals[0].bend
\* (a TypeError when there is no edge), the disposal of the tubes in
\* mostBentEdges and the creation of the new ones, the volume
\* and the display; the autorun's locals end with it.  How many entries
\* lie within 1e-7 of the maximum depends on the bends' values: one, all
\* of them, or (bends that are NaN) none.
MetricsFinish ==
  /\ pc = "mfinish"
  /\ UNCHANGED libVars
  /\ IF Len(dihedrals) = 0
     THEN /\ metricsErr' = "TypeError"
          /\ UNCHANGED <<mostBentEdges, liveTubes, tracksDisplay>>
     ELSE /\ tracksDisplay' = TRUE
          /\ \E most \in {0, 1, Len(dihedrals)} :
                mostBentEdges' = IF displayMode # "wireframe" THEN 0
                                 ELSE most
          /\ liveTubes' = TubesAfterUpdate(liveTubes, mostBentEdges,
                                            mostBentEdges')
          /\ UNCHANGED metricsErr
  /\ pc' = "idle"
  /\ mTriangulation' = << >>
  /\ sum0' = 0
  /\ dihedrals' = << >>
  /\ mi' = 0 /\ mj' = 0
  /\ UNCHANGED <<paramVars, estVars, metricsPending>>

\* The change handlers of the four controls.  A reaction runs only when a
\* value it observes has changed.
SetNSteps ==
  /\ pc = "idle"
  /\ UNCHANGED libVars
  /\ \E n \in 0..MaxN :
        /\ n # nSteps
        /\ nSteps' = n
  /\ convergeAt' \in ConvergeAtFor(triangFn)
  /\ pc' = "est"
  /\ metricsPending' = TRUE
  /\ UNCHANGED <<triangFn, adjacentShape, displayMode, estVars, metricsVars>>

SetTriangFn ==
  /\ pc = "idle"
  /\ UNCHANGED libVars
  /\ \E f \in FnNames :
        /\ f # triangFn
        /\ triangFn' = f
  /\ convergeAt' \in ConvergeAtFor(triangFn')
  /\ pc' = "est"
  /\ metricsPending' = TRUE
  /\ UNCHANGED <<nSteps, adjacentShape, displayMode, estVars, metricsVars>>

SetAdjacentShape ==
  /\ pc = "idle"
  /\ UNCHANGED libVars
  /\ \E s \in AdjShapes :
        /\ s # adjacentShape
        /\ adjacentShape' = s
  /\ pc' = "est"
  /\ metricsPending' = TRUE
  /\ UNCHANGED <<nSteps, triangFn, displayMode, convergeAt, estVars,
                 metricsVars>>

SetDisplayMode ==
  /\ pc = "idle"
  /\ UNCHANGED libVars
  /\ \E m \in DisplayModes :
        /\ m # displayMode
        /\ displayMode' = m
  /\ metricsPending' = tracksDisplay
  /\ pc' = IF (displayMode' # "polyhedron") # (displayMode # "polyhedron")
           THEN "est"
           ELSE IF tracksDisplay THEN "metrics" ELSE "idle"
  /\ UNCHANGED <<nSteps, triangFn, adjacentShape, convergeAt, estVars,
                 metricsVars>>

AppNext ==
  \/ EstConstruct
  \/ EstVisit
  \/ EstApply
  \/ EstRenderAdjacent
  \/ MetricsStart
  \/ MetricsVisit
  \/ MetricsFinish
  \/ SetNSteps
  \/ SetTriangFn
  \/ SetAdjacentShape
  \/ SetDisplayMode

vars == <<appVars, libVars>>

Init == AppInit /\ SolverIdle /\ BalancedIdle /\ HeapIdle

Next == AppNext

Spec == Init /\ [][Next]_vars

\* The lab as its controls drive it: the step count comes from the range
\* input #nSteps, whose value is never below its min.
MinSteps == 1

LabInit == Init /\ nSteps >= MinSteps

SetNStepsInRange == SetNSteps /\ nSteps' >= MinSteps

LabNext ==
  \/ EstConstruct
  \/ EstVisit
  \/ EstApply
  \/ EstRenderAdjacent
  \/ MetricsStart
  \/ MetricsVisit
  \/ MetricsFinish
  \/ SetNStepsInRange
  \/ SetTriangFn
  \/ SetAdjacentShape
  \/ SetDisplayMode

LabSpec == LabInit /\ [][LabNext]_vars

\* ------------------------------------------------------------------------
\* findSineRatio(p), one loop iteration per step

FindSineRatioCall ==
  /\ fsPc \in {"idle", "returned"}
  /\ \E p \in FlatPoints :
        /\ fsP' = p
        /\ fsGuess' = [seed |-> p, updates |-> 0]
  /\ fsI' = 0
  /\ fsTests' = << >>
  /\ fsWarnings' = 0
  /\ fsResult' = [seed |-> ZeroPoint, updates |-> 0]
  /\ fsPc' = "loop"
  /\ UNCHANGED <<appVars, balancedVars, heapVars>>

FindSineRatioIter_update_first ==
  /\ fsPc = "loop"
  /\ fsI < MaxIterations
  /\ \E small \in BOOLEAN :
        /\ fsTests' = Append(fsTests, small)
        /\ fsGuess' = [fsGuess EXCEPT !.updates = @ + 1]
        /\ IF small
           THEN /\ fsResult' = fsGuess'
                /\ fsPc' = "returned"
                /\ UNCHANGED fsI
           ELSE /\ fsI' = fsI + 1
                /\ UNCHANGED <<fsResult, fsPc>>
  /\ UNCHANGED <<fsP, fsWarnings>>
  /\ UNCHANGED <<appVars, balancedVars, heapVars>>

\* The loop body: angles, offset, the test, and either the return of
\* guess or its update in place and i++.
FindSineRatioIter ==
  /\ fsPc = "loop"
  /\ fsI < MaxIterations
  /\ \E small \in BOOLEAN :
        /\ fsTests' = Append(fsTests, small)
        /\ IF small
           THEN /\ fsResult' = fsGuess
                /\ fsPc' = "returned"
                /\ UNCHANGED <<fsGuess, fsI>>
           ELSE /\ fsGuess' = [fsGuess EXCEPT !.updates = @ + 1]
                /\ fsI' = fsI + 1
                /\ UNCHANGED <<fsResult, fsPc>>
  /\ UNCHANGED <<fsP, fsWarnings>>
  /\ UNCHANGED <<appVars, balancedVars, heapVars>>

\* The loop has ended: console.warn and return guess.
FindSineRatioFailed ==
  /\ fsPc = "loop"
  /\ ~(fsI < MaxIterations)
  /\ fsWarnings' = fsWarnings + 1
  /\ fsResult' = fsGuess
  /\ fsPc' = "returned"
  /\ UNCHANGED <<fsP, fsGuess, fsI, fsTests>>
  /\ UNCHANGED <<appVars, balancedVars, heapVars>>

SolverInit == AppOff /\ SolverIdle /\ BalancedIdle /\ HeapIdle

SolverNext ==
  \/ FindSineRatioCall
  \/ FindSineRatioIter
  \/ FindSineRatioFailed

\* A call that has started runs on: the code is a synchronous loop.
SolverSpec ==
  /\ SolverInit
  /\ [][SolverNext]_vars
  /\ WF_vars(FindSineRatioIter)
  /\ WF_vars(FindSineRatioFailed)

\* ------------------------------------------------------------------------
\* balanced(n), one balance pass per step

BalancedCall ==
  /\ bPc \in {"idle", "returned"}
  /\ \E n \in 0..MaxN :
        /\ bN' = n
        /\ bT' = sineBased(n)
  /\ bR' = 0
  /\ bPrev' = << >>
  /\ bTests' = << >>
  /\ bWarnings' = 0
  /\ bResult' = << >>
  /\ bPc' = "loop"
  /\ UNCHANGED <<appVars, solverVars, heapVars>>

\* Does balance(t) fail (a TypeError in mean)?
balanceFails(t) ==
  \E r \in DOMAIN t : \E c \in DOMAIN t[r] : balanceThrows(t, r - 1, c - 1)

BalancedPass_break_first ==
  /\ bPc = "loop"
  /\ bR < MaxPasses
  /\ LET refined == balance(bT)
     IN  \E small \in (IF distSqSumOf(bT, refined) = 0
                       THEN {TRUE} ELSE BOOLEAN) :
            /\ bTests' = Append(bTests, small)
            /\ IF small
               THEN /\ bResult' = bT
                    /\ bPc' = "returned"
                    /\ UNCHANGED <<bR, bT, bPrev>>
               ELSE /\ bT' = refined
                    /\ bPrev' = bT
                    /\ bR' = bR + 1
                    /\ UNCHANGED <<bResult, bPc>>
  /\ UNCHANGED <<bN, bWarnings>>
  /\ UNCHANGED <<appVars, solverVars, heapVars>>

\* The loop body: refined = balance(t), avgDist, t = refined, and either
\* break (and return t) or r++.  avgDist is 0 when no point has moved;
\* otherwise the outcome of the test depends on the points' values.
BalancedPass ==
  /\ bPc = "loop"
  /\ bR < MaxPasses
  /\ IF balanceFails(bT)
     THEN /\ bPc' = "thrown"
          /\ UNCHANGED <<bT, bR, bPrev, bTests, bResult>>
     ELSE LET refined == balance(bT)
          IN  /\ bT' = refined
              /\ bPrev' = bT
              /\ \E small \in (IF distSqSumOf(bT, refined) = 0
                               THEN {TRUE} ELSE BOOLEAN) :
                    /\ bTests' = Append(bTests, small)
                    /\ IF small
                       THEN /\ bResult' = refined
                            /\ bPc' = "returned"
                            /\ UNCHANGED bR
                       ELSE /\ bR' = bR + 1
                            /\ UNCHANGED <<bResult, bPc>>
  /\ UNCHANGED <<bN, bWarnings>>
  /\ UNCHANGED <<appVars, solverVars, heapVars>>

BalancedExhausted_warn_bug ==
  /\ bPc = "loop"
  /\ ~(bR < MaxPasses)
  /\ bWarnings' = bWarnings + 1
  /\ bResult' = bT
  /\ bPc' = "returned"
  /\ UNCHANGED <<bN, bT, bR, bPrev, bTests>>
  /\ UNCHANGED <<appVars, solverVars, heapVars>>

\* The loop has ended without break: return t (nothing is logged).
BalancedExhausted ==
  /\ bPc = "loop"
  /\ ~(bR < MaxPasses)
  /\ bResult' = bT
  /\ bPc' = "returned"
  /\ UNCHANGED <<bN, bT, bR, bPrev, bTests, bWarnings>>
  /\ UNCHANGED <<appVars, solverVars, heapVars>>

BalancedInit == AppOff /\ SolverIdle /\ BalancedIdle /\ HeapIdle

BalancedNext ==
  \/ BalancedCall
  \/ BalancedPass
  \/ BalancedExhausted

\* A call that has started runs on: the code is a synchronous loop.
BalancedSpec ==
  /\ BalancedInit
  /\ [][BalancedNext]_vars
  /\ WF_vars(BalancedPass)
  /\ WF_vars(BalancedExhausted)

\* ------------------------------------------------------------------------
\* balanced(n) with its Vector3 objects: a grid is rows of addresses, and
\* one step is one call of the callback of row.map in balance

\* The values of the points of a grid of addresses
ValuesOf(heap, grid) ==
  [r \in DOMAIN grid |-> [c \in DOMAIN grid[r] |-> heap[grid[r][c]]]]

\* The object that mean accumulates in: reduce starts from Vector3.Zero(),
\* a new object (with no initial value it would start from vectors[0]).
meanSum_first_arg_bug(heap, argAddrs) == argAddrs[1]

meanSum(heap, argAddrs) == Len(heap) + 1

\* addInPlace / normalize on the object at address a, new or not
HeapSet(heap, a, val) ==
  IF a = Len(heap) + 1 THEN Append(heap, val) ELSE [heap EXCEPT ![a] = val]

\* let t = sineBased(n); r = 0: the points of the seed are new objects
HeapBalancedCall ==
  /\ hPc \in {"idle", "returned"}
  /\ \E n \in 0..MaxN :
        /\ hN' = n
        /\ hHeap' = [a \in 1..nVertices(n) |->
                       LET ij == CHOOSE p \in (0..n) \X (0..n) :
                                    /\ HasElem(sineBased(n), p[1], p[2])
                                    /\ vtx(n, p[1], p[2]) + 1 = a
                       IN  Elem(sineBased(n), ij[1], ij[2])]
        /\ hT' = [r \in 1..(n + 1) |->
                    [c \in 1..(n - r + 2) |-> vtx(n, r - 1, c - 1) + 1]]
  /\ hRefined' = << >>
  /\ hI' = 0 /\ hJ' = 0
  /\ hR' = 0
  /\ hResult' = << >>
  /\ hPc' = "loop"
  /\ UNCHANGED <<appVars, solverVars, balancedVars>>

\* r < 100: balance(t) is called
HeapBalanceBegin ==
  /\ hPc = "loop"
  /\ hR < MaxPasses
  /\ hRefined' = << >>
  /\ hI' = 0 /\ hJ' = 0
  /\ hPc' = "pass"
  /\ UNCHANGED <<hN, hHeap, hT, hR, hResult>>
  /\ UNCHANGED <<appVars, solverVars, balancedVars>>

\* The callback of row.map for the element (hI, hJ) of tt = t: v itself,
\* or the object mean(...) returns.
HeapBalanceElement ==
  /\ hPc = "pass"
  /\ LET args     == balanceArgs(hT, hI, hJ)
         v        == Elem(hT, hI, hJ)
         missing  == \E a \in DOMAIN args :
                        ~HasElem(hT, args[a][1], args[a][2])
         argAddrs == [a \in DOMAIN args |-> Elem(hT, args[a][1], args[a][2])]
         sum      == meanSum(hHeap, argAddrs)
         val      == mean([a \in DOMAIN args |-> hHeap[argAddrs[a]]], hHeap[v])
         out      == IF args = << >> THEN v ELSE sum
         rowEnd   == hJ + 1 >= Len(hT[hI + 1])
         last     == rowEnd /\ hI + 1 >= Len(hT)
     IN  IF missing
         THEN /\ hPc' = "thrown"
              /\ UNCHANGED <<hHeap, hRefined, hI, hJ>>
         ELSE /\ hHeap' = IF args = << >> THEN hHeap
                          ELSE HeapSet(hHeap, sum, val)
              /\ hRefined' = IF hJ = 0 THEN Append(hRefined, <<out>>)
                             ELSE [hRefined EXCEPT ![hI + 1] = Append(@, out)]
              /\ hI' = IF rowEnd THEN hI + 1 ELSE hI
              /\ hJ' = IF rowEnd THEN 0 ELSE hJ + 1
              /\ hPc' = IF last THEN "test" ELSE "pass"
  /\ UNCHANGED <<hN, hT, hR, hResult>>
  /\ UNCHANGED <<appVars, solverVars, balancedVars>>

\* balance has returned refined: avgDist, t = refined, and break or r++
HeapBalancedTest ==
  /\ hPc = "test"
  /\ \E small \in (IF distSqSumOf(ValuesOf(hHeap, hT),
                                  ValuesOf(hHeap, hRefined)) = 0
                   THEN {TRUE} ELSE BOOLEAN) :
        IF small
        THEN /\ hResult' = hRefined
             /\ hPc' = "returned"
             /\ UNCHANGED hR
        ELSE /\ hR' = hR + 1
             /\ hPc' = "loop"
             /\ UNCHANGED hResult
  /\ hT' = hRefined
  /\ hRefined' = << >>
  /\ UNCHANGED <<hN, hHeap, hI, hJ>>
  /\ UNCHANGED <<appVars, solverVars, balancedVars>>

\* The loop has ended without break: return t.
HeapBalancedExhausted ==
  /\ hPc = "loop"
  /\ ~(hR < MaxPasses)
  /\ hResult' = hT
  /\ hPc' = "returned"
  /\ UNCHANGED <<hN, hHeap, hT, hRefined, hI, hJ, hR>>
  /\ UNCHANGED <<appVars, solverVars, balancedVars>>

HeapInit == AppOff /\ SolverIdle /\ BalancedIdle /\ HeapIdle

HeapNext ==
  \/ HeapBalancedCall
  \/ HeapBalanceBegin
  \/ HeapBalanceElement
  \/ HeapBalancedTest
  \/ HeapBalancedExhausted

\* A call that has started runs on: the code is a synchronous loop.
HeapSpec ==
  /\ HeapInit
  /\ [][HeapNext]_vars
  /\ WF_vars(HeapBalanceBegin)
  /\ WF_vars(HeapBalanceElement)
  /\ WF_vars(HeapBalancedTest)
  /\ WF_vars(HeapBalancedExhausted)

\* ------------------------------------------------------------------------
\* Properties

\* Is (i, j) a position of the grid of order n?
InGrid(n, i, j) == i >= 0 /\ j >= 0 /\ n - i - j >= 0

GridPositions(n) == {ij \in (0..n) \X (0..n) : InGrid(n, ij[1], ij[2])}

\* The constructor holds the triangulation of the current parameters.
EstHasTriangulation == pc \in {"loop", "apply", "adjacent"}

\* The metrics autorun holds the triangulation of the current parameters.
MetricsHasTriangulation == pc \in {"mloop", "mfinish"}

HasShape(t, n) ==
  /\ Len(t) = n + 1
  /\ \A i \in 0..n : Len(t[i + 1]) = n - i + 1

\* C1: whatever the generator of the registry and the order n, the
\* triangulation a caller gets (the mesh constructor, the metrics) has n+1
\* rows, row i has n-i+1 points, and so the last row has one point.
C1_Shape ==
  /\ EstHasTriangulation =>
       /\ HasShape(triangulation, nSteps)
       /\ Len(triangulation[nSteps + 1]) = 1
  /\ MetricsHasTriangulation =>
       /\ HasShape(mTriangulation, nSteps)
       /\ Len(mTriangulation[nSteps + 1]) = 1

C1_Witness ==
  /\ pc = "apply"
  /\ triangFn = "balanced"
  /\ nSteps >= 2
  /\ Len(triangulation) = nSteps + 1
  /\ Len(triangulation[1]) = nSteps + 1

\* C2: vtx is a bijection from the grid positions onto 0 .. (n+1)(n+2)/2 - 1,
\* rowVertices is an integer, vtx grows in row-major order, and the vertex
\* arrays have (n+1)(n+2)/2 vertices, each written from its grid position.
C2_VertexIndex ==
  LET n == nSteps
      N == ((n + 1) * (n + 2)) \div 2
      G == GridPositions(n)
  IN  /\ \A i \in 0..(n + 1) : rowVerticesTimes2(n, i) % 2 = 0
      /\ \A i \in 0..(n + 1) :
            rowVertices(n, i) * 2 = i * (2 * n + 3 - i)
      /\ {vtx(n, ij[1], ij[2]) : ij \in G} = 0..(N - 1)
      /\ \A p, q \in G :
            (p[1] < q[1] \/ (p[1] = q[1] /\ p[2] < q[2]))
               => vtx(n, p[1], p[2]) < vtx(n, q[1], q[2])
      /\ nVertices(n) = N
      /\ EstHasTriangulation => Len(normals) = N /\ Len(uvs) = N
      /\ pc = "apply" =>
            \A ij \in G :
               normals[vtx(n, ij[1], ij[2]) + 1]
                  = Elem(triangulation, ij[1], ij[2])

C2_Witness ==
  /\ pc = "apply"
  /\ nSteps >= 2
  /\ normals[nVertices(nSteps)] = Elem(triangulation, nSteps, 0)

\* Triangle number x (from 0) of an index array
Tri(ind, x) == <<ind[3 * x + 1], ind[3 * x + 2], ind[3 * x + 3]>>

\* C3: the index list handed to the renderer for the primary patch holds
\* exactly n^2 triangles, and each of its indices is a vertex index, below
\* (n+1)(n+2)/2.
C3_IndexList ==
  pc = "adjacent" =>
    /\ mesh.applied
    /\ Len(mesh.indices) = 3 * nSteps * nSteps
    /\ \A x \in DOMAIN mesh.indices :
          mesh.indices[x] \in 0..(((nSteps + 1) * (nSteps + 2)) \div 2 - 1)

\* C4: the visit of the grid position (i, j) emits, for i > 0, the triangle
\* (i-1,j), (i-1,j+1), (i,j) and then, for j > 0 too, the triangle (i,j),
\* (i,j-1), (i-1,j), in vertex indices and in this order; it emits nothing
\* else (nothing at all for i = 0), refers to grid positions only, leaves
\* the triangles emitted before alone, and never emits a triangle twice.
C4_VisitEmits ==
  LET n == nSteps
      i == vi
      j == vj
      up   == <<vtx(n, i - 1, j), vtx(n, i - 1, j + 1), vtx(n, i, j)>>
      down == <<vtx(n, i, j), vtx(n, i, j - 1), vtx(n, i - 1, j)>>
  IN  pc = "loop" =>
        /\ InGrid(n, i, j)
        /\ vertexIdx' = vertexIdx + (IF i > 0 THEN 1 ELSE 0)
                                  + (IF i > 0 /\ j > 0 THEN 1 ELSE 0)
        /\ i > 0 =>
              /\ Tri(indices', vertexIdx) = up
              /\ InGrid(n, i - 1, j) /\ InGrid(n, i - 1, j + 1)
        /\ (i > 0 /\ j > 0) =>
              /\ Tri(indices', vertexIdx + 1) = down
              /\ InGrid(n, i, j - 1)
        /\ \A x \in 0..(vertexIdx - 1) : Tri(indices', x) = Tri(indices, x)
        /\ \A x \in 0..(vertexIdx' - 1) : \A y \in 0..(vertexIdx' - 1) :
              x # y => Tri(indices', x) # Tri(indices', y)
        /\ \A x \in (3 * vertexIdx' + 1)..Len(indices') : indices'[x] = 0

\* C4: every step of the constructor's loop emits its triangles as stated
\* in C4_VisitEmits: the upward triangle for i > 0, then the downward one
\* for i > 0 and j > 0, and nothing else.
C4_Emission == [][C4_VisitEmits]_vars

C4_Witness ==
  /\ EstHasTriangulation
  /\ nSteps >= 3
  /\ vertexIdx >= 2
  /\ Tri(indices, vertexIdx - 2)
        = <<vtx(nSteps, 1, 1), vtx(nSteps, 1, 2), vtx(nSteps, 2, 1)>>
  /\ Tri(indices, vertexIdx - 1)
        = <<vtx(nSteps, 2, 1), vtx(nSteps, 2, 0), vtx(nSteps, 1, 1)>>

AllFalse(tests) == \A x \in DOMAIN tests : ~tests[x]

\* The tests before the last one have failed.
FirstSuccessLast(tests) ==
  /\ Len(tests) >= 1
  /\ \A x \in 1..(Len(tests) - 1) : ~tests[x]

\* C5 (state part): at most 30 iterations; a return on the first successful
\* test hands back the guess as it was before that test (one update per
\* failed test), with no warning; after 30 failed tests the guess with its
\* 30 updates is returned after exactly one warning.
C5_Inv ==
  /\ fsI <= 30
  /\ Len(fsTests) <= 30
  /\ fsPc = "loop" =>
       /\ AllFalse(fsTests)
       /\ Len(fsTests) = fsI
       /\ fsGuess = [seed |-> fsP, updates |-> fsI]
       /\ fsWarnings = 0
  /\ fsPc = "returned" =>
       /\ fsResult = fsGuess
       /\ FirstSuccessLast(fsTests)
       /\ \/ /\ fsTests[Len(fsTests)]
             /\ fsResult = [seed |-> fsP, updates |-> Len(fsTests) - 1]
             /\ fsWarnings = 0
          \/ /\ ~fsTests[Len(fsTests)]
             /\ Len(fsTests) = 30
             /\ fsResult = [seed |-> fsP, updates |-> 30]
             /\ fsWarnings = 1

\* C5: findSineRatio always returns, within 30 iterations, the guess as
\* described in C5_Inv.
C5_FindSineRatio == []C5_Inv /\ ((fsPc = "loop") ~> (fsPc = "returned"))

C5_Witness ==
  /\ fsPc = "returned"
  /\ fsWarnings = 1
  /\ Len(fsTests) = 30
  /\ fsResult.updates = 30

\* C6 (state part): between 1 and 100 passes; every pass but the last has
\* failed the displacement test; the last one has passed it unless it is
\* the 100th; a pass that moves no point passes it; what is returned is the
\* grid the last pass has produced from the grid before it.
C6_Inv ==
  /\ bPc # "thrown"
  /\ Len(bTests) <= 100
  /\ bPc = "loop" => AllFalse(bTests) /\ Len(bTests) = bR
  /\ (bPc \in {"loop", "returned"} /\ Len(bTests) >= 1) =>
       /\ bT = balance(bPrev)
       /\ (bT = bPrev) => bTests[Len(bTests)]
  /\ bPc = "returned" =>
       /\ FirstSuccessLast(bTests)
       /\ bTests[Len(bTests)] \/ Len(bTests) = 100
       /\ bResult = bT

\* C6 (step part): a pass is performed only while every pass before it has
\* failed the test, and works on the grid of the pass before it.
C6_Step ==
  (bPc = "loop" /\ bTests' # bTests) =>
     /\ AllFalse(bTests)
     /\ bTests' = Append(bTests, bTests'[Len(bTests')])
     /\ bT' = balance(bT)

\* C6: balanced always returns, after 1 to 100 passes, as described in
\* C6_Inv and C6_Step.
C6_Balanced ==
  /\ []C6_Inv
  /\ [][C6_Step]_vars
  /\ ((bPc = "loop") ~> (bPc = "returned"))

C6_Witness ==
  /\ bPc = "returned"
  /\ bN >= 3
  /\ Len(bTests) = 100
  /\ ~bTests[100]
  /\ bResult = balance(bPrev)

\* The points of t at a sequence of positions
PointsAt(t, ps) == [a \in DOMAIN ps |-> Elem(t, ps[a][1], ps[a][2])]

SeqRange(ps) == {ps[a] : a \in DOMAIN ps}

\* C7: a balance pass keeps the three corners, replaces a non-corner point
\* of a boundary edge by the mean of its 2 neighbours on that edge and an
\* interior point by the mean of its 6 distinct grid neighbours; it reads
\* grid positions only and keeps the shape.
C7_BalancePass ==
  (bPc \in {"loop", "returned"} /\ Len(bTests) >= 1) =>
    LET n == bN
    IN  /\ HasShape(bPrev, n)
        /\ HasShape(bT, n)
        /\ \A ij \in GridPositions(n) :
             LET i == ij[1]
                 j == ij[2]
                 k == n - i - j
                 args == balanceArgs(bPrev, i, j)
                 new  == Elem(bT, i, j)
                 old  == Elem(bPrev, i, j)
             IN  /\ \A a \in DOMAIN args : InGrid(n, args[a][1], args[a][2])
                 /\ Cardinality(SeqRange(args)) = Len(args)
                 /\ IF ij \in {<<0, 0>>, <<0, n>>, <<n, 0>>}
                    THEN new = old /\ args = << >>
                    ELSE /\ new = mean(PointsAt(bPrev, args), old)
                         /\ SeqRange(args) =
                              IF i = 0 THEN {<<0, j - 1>>, <<0, j + 1>>}
                              ELSE IF j = 0 THEN {<<i - 1, 0>>, <<i + 1, 0>>}
                              ELSE IF k = 0
                                   THEN {<<i - 1, j + 1>>, <<i + 1, j - 1>>}
                              ELSE {<<i + 1, j - 1>>, <<i + 1, j>>,
                                    <<i, j - 1>>, <<i, j + 1>>,
                                    <<i - 1, j>>, <<i - 1, j + 1>>}
                         /\ Len(args) = IF i = 0 \/ j = 0 \/ k = 0 THEN 2
                                        ELSE 6

C7_Witness ==
  /\ bPc = "loop"
  /\ bN >= 3
  /\ Len(bTests) >= 2
  /\ Elem(bT, 1, 1) = mean(PointsAt(bPrev, balanceArgs(bPrev, 1, 1)),
                           Elem(bPrev, 1, 1))
  /\ Elem(bT, 1, 1) # Elem(bPrev, 1, 1)
  /\ Elem(bT, 1, 2) # Elem(bPrev, 1, 2)
  /\ Elem(bT, 0, 0) = Elem(bPrev, 0, 0)

\* The meshes of the adjacent patches are those of the current parameters.
AdjCurrent == pc \in {"loop", "apply", "adjacent", "metrics", "mloop",
                      "mfinish", "idle"}

EstDone == pc \in {"metrics", "mloop", "mfinish", "idle"}

\* C8: for n = 0 the est autorun (triangulation, mesh, three strips) and
\* the metrics autorun complete without an error.
C8_DegenerateOrder ==
  (nSteps = 0 /\ pc = "idle") =>
     /\ estErr = "none"
     /\ est = "live"
     /\ Len(adj) = 3
     /\ metricsErr = "none"

\* C9 (state part): for n >= 1 each of the three strips has 2n+1 vertices,
\* slot 2j holding boundary vertex j and slot 2j-1 outer vertex j-1, and n
\* triangles, the j-th being (2(j-1), 2j, 2j-1), with indices in 0..2n; all
\* elements read are at grid positions, and no strip fails.
C9_Inv ==
  (nSteps >= 1 /\ AdjCurrent) =>
    LET n == nSteps
    IN  /\ estErr = "none"
        /\ EstDone => Len(adj) = 3
        /\ \A k \in DOMAIN adj :
             LET st == adj[k]
             IN  /\ Len(st.positions) = 2 * n + 1
                 /\ Len(st.normals) = 2 * n + 1
                 /\ Len(st.indices) = 3 * n
                 /\ \A j \in 0..n :
                      LET bp == borderPos(k, n, j)
                      IN  /\ InGrid(n, bp[1], bp[2])
                          /\ st.positions[2 * j + 1]
                               = Vertex("id", Elem(triangulation, bp[1], bp[2]))
                 /\ \A j \in 1..n :
                      LET op == outerPos(k, n, adjacentShape, j - 1)
                      IN  /\ InGrid(n, op[1], op[2])
                          /\ st.positions[(2 * j - 1) + 1]
                               = Vertex(outerXf(k, adjacentShape),
                                        Elem(triangulation, op[1], op[2]))
                          /\ Tri(st.indices, j - 1)
                               = <<2 * (j - 1), 2 * j, 2 * j - 1>>
                 /\ \A x \in DOMAIN st.indices : st.indices[x] \in 0..(2 * n)

\* C9 (step part): building a strip leaves the primary patch's index
\* buffer, and what the renderer got of it, alone.
C9_Step ==
  pc = "adjacent" =>
     /\ indices' = indices
     /\ vertexIdx' = vertexIdx
     /\ mesh' = mesh

\* C9: the adjacent-patch strips are laid out as in C9_Inv and are kept
\* apart from the primary patch's indices.
C9_Strips == []C9_Inv /\ [][C9_Step]_vars

C9_Witness ==
  /\ pc = "idle"
  /\ nSteps >= 2
  /\ adjacentShape = "cylinder"
  /\ Len(adj) = 3
  /\ adj[2].positions[2] = Vertex("cylZ", Elem(triangulation, 1, 0))
  /\ Tri(adj[3].indices, 1) = <<2, 4, 3>>

\* The boundary edge (1: i = 0, 2: j = 0, 3: k = 0) that the edge of a
\* dihedral entry lies on; 0 when it lies on none.
BoundaryOf(n, d) ==
  IF d.i = 0 /\ d.i_ = 0 THEN 1
  ELSE IF d.j = 0 /\ d.j_ = 0 THEN 2
  ELSE IF d.i + d.j = n /\ d.i_ + d.j_ = n THEN 3
  ELSE 0

\* C10: for an edge on a boundary edge, the vertex the bend computation
\* uses outside the grid is the outer vertex of the strip triangle built
\* on that edge segment.
C10_SameOuterVertex ==
  (pc = "mfinish" /\ nSteps >= 1 /\ Len(adj) = 3) =>
    \A x \in DOMAIN dihedrals :
      LET d   == dihedrals[x]
          k   == BoundaryOf(nSteps, d)
          idx == IF k = 1 THEN d.j ELSE d.i
          og  == IF d.bend[2].xf # "id" THEN d.bend[2] ELSE d.bend[4]
      IN  k # 0 =>
            /\ og.xf # "id"
            /\ og = adj[k].positions[(2 * (idx + 1) - 1) + 1]

\* The generators whose points lie on the unit sphere.
SphericalFns == {"geodesics", "parallels", "evenGeodesics", "sineBased",
                 "sineBased2", "asinBased", "balanced"}

CornersAreAxes(t, n) ==
  /\ PointValue(Elem(t, 0, 0)) = "ex"
  /\ PointValue(Elem(t, 0, n)) = "ez"
  /\ PointValue(Elem(t, n, 0)) = "ey"

\* C11: for n >= 1 and a spherical generator, the corners of the
\* triangulation a caller gets are the unit vectors of the axes:
\* t[0][0] = ex, t[0][n] = ez and t[n][0] = ey.
C11_Corners ==
  (nSteps >= 1 /\ triangFn \in SphericalFns) =>
     /\ EstHasTriangulation => CornersAreAxes(triangulation, nSteps)
     /\ MetricsHasTriangulation => CornersAreAxes(mTriangulation, nSteps)

C11_Witness ==
  /\ pc = "mloop"
  /\ nSteps >= 2
  /\ triangFn = "balanced"
  /\ convergeAt = 3
  /\ PointValue(Elem(mTriangulation, nSteps, 0)) = "ey"
  /\ PointValue(Elem(mTriangulation, 0, nSteps)) = "ez"
  /\ PointValue(Elem(mTriangulation, 0, 1)) = "other"

\* balanced has returned after 100 passes that all failed the test.
BalancedBudgetUsedUp ==
  /\ bPc = "returned"
  /\ Len(bTests) = MaxPasses
  /\ AllFalse(bTests)

\* C12 as stated: when balanced uses up its 100 passes without the
\* displacement falling below the threshold, one warning is logged and the
\* last computed grid is returned.
C12_WarnsOnExhaustion ==
  BalancedBudgetUsedUp =>
     /\ bWarnings = 1
     /\ bResult = bT
     /\ bResult = balance(bPrev)

\* C12 as amended: when balanced uses up its 100 passes without the
\* displacement falling below the threshold, the grid of the 100th pass is
\* returned and nothing is logged: no warning is ever logged by balanced.
C12_SilentOnExhaustion ==
  /\ bWarnings = 0
  /\ BalancedBudgetUsedUp =>
       /\ bR = MaxPasses
       /\ bResult = bT
       /\ bResult = balance(bPrev)

C12_Witness ==
  /\ BalancedBudgetUsedUp
  /\ bN >= 2
  /\ bWarnings = 0
  /\ bResult = bT
  /\ Elem(bResult, 0, 1).pass = MaxPasses

\* The renderer holds the meshes of the current parameters.
MeshCurrent == pc \in {"adjacent", "metrics", "mloop", "mfinish", "idle"}

\* Number of triangles in the strips built so far
RECURSIVE StripTriangles(_)
StripTriangles(strips) ==
  IF strips = << >> THEN 0
  ELSE Len(Head(strips).indices) \div 3 + StripTriangles(Tail(strips))

NeighborOffsets ==
  {<<1, -1>>, <<1, 0>>, <<0, 1>>, <<-1, 1>>, <<-1, 0>>, <<0, -1>>}

AreNeighbors(p, q) == <<q[1] - p[1], q[2] - p[2]>> \in NeighborOffsets

\* The grid positions that form a triangle with the edge from p to q
ThirdVertices(n, p, q) ==
  {r \in GridPositions(n) : AreNeighbors(p, r) /\ AreNeighbors(q, r)}

\* The vertices of a dihedral entry that are grid points as they are
\* (not mirrored, not put on the cylinder), but for the edge's own
GridSideVertices(d) ==
  {d.bend[x] : x \in {y \in {2, 4} : d.bend[y].xf = "id"}}

\* C14 (the branches, for the edges from the element visited next): at
\* most one of ib < 0, ja < 0, ib + jb > n holds; with none, (ia, ja) and
\* (ib, jb) are the two grid positions that form a triangle with the edge;
\* with one, the position read is a grid position, the only one that forms
\* a triangle with the edge.
C14_AtVisit ==
  LET n == nSteps
      i == mi
      j == mj
  IN  \A o \in DOMAIN forwardNeighborOffsets :
        LET di == forwardNeighborOffsets[o][1]
            dj == forwardNeighborOffsets[o][2]
            ia == i + di + dj
            ja == j - di
            ib == i - dj
            jb == j + di + dj
            c1 == ib < 0
            c2 == ja < 0
            c3 == ib + jb > n
            rd == bendReads(n, i, j, di, dj)
            tv == ThirdVertices(n, <<i, j>>, <<i + di, j + dj>>)
        IN  (InGrid(n, i, j) /\ InGrid(n, i + di, j + dj)) =>
              /\ ~(c1 /\ c2) /\ ~(c1 /\ c3) /\ ~(c2 /\ c3)
              /\ (bendBranch(n, i, j, di, dj) = "inner") <=> ~(c1 \/ c2 \/ c3)
              /\ \A a \in DOMAIN rd : InGrid(n, rd[a][1], rd[a][2])
              /\ ~(c1 \/ c2 \/ c3) =>
                    /\ InGrid(n, ia, ja) /\ InGrid(n, ib, jb)
                    /\ rd = << <<ia, ja>>, <<ib, jb>> >>
                    /\ tv = {<<ia, ja>>, <<ib, jb>>}
                    /\ Cardinality(tv) = 2
              /\ (c1 \/ c2 \/ c3) =>
                    /\ Len(rd) = 1
                    /\ tv = {rd[1]}

\* C14 (the entries recorded): the grid points used beside the edge's own
\* are those at the positions that form a triangle with the edge.
C14_Recorded ==
  \A x \in DOMAIN dihedrals :
    LET d == dihedrals[x]
    IN  GridSideVertices(d) =
          {Vertex("id", Elem(mTriangulation, r[1], r[2])) :
             r \in ThirdVertices(nSteps, <<d.i, d.j>>, <<d.i_, d.j_>>)}

\* C14: for n >= 1, the four branches of the selection of va and vb are
\* exclusive and exhaustive, read grid positions only, and pick the third
\* vertex of every in-grid triangle on the edge; the metrics never fail on
\* a read.
C14_Branches ==
  (nSteps >= 1) =>
     /\ pc = "mloop" => C14_AtVisit /\ C14_Recorded
     /\ pc = "mfinish" => C14_Recorded
     /\ pc \in {"mloop", "mfinish", "idle"} => metricsErr = "none"

C14_Witness ==
  /\ pc = "mfinish"
  /\ nSteps >= 2
  /\ \E x \in DOMAIN dihedrals :
        /\ bendBranch(nSteps, dihedrals[x].i, dihedrals[x].j, 1, -1)
             = "ib+jb>n"
        /\ dihedrals[x].i_ = dihedrals[x].i + 1
        /\ dihedrals[x].j_ = dihedrals[x].j - 1
        /\ dihedrals[x].bend[4]
             = Vertex("id", Elem(mTriangulation, dihedrals[x].i,
                                 dihedrals[x].j - 1))
  /\ \E x \in DOMAIN dihedrals :
        /\ dihedrals[x].bend[2].xf = "id"
        /\ dihedrals[x].bend[4].xf = "id"

\* The objects a grid refers to
AddrsOf(grid) == UNION {{grid[r][c] : c \in DOMAIN grid[r]} : r \in DOMAIN grid}

\* The positions of the elements of a grid (rows of any length)
PositionsOf(grid) ==
  UNION {{<<r - 1, c - 1>> : c \in DOMAIN grid[r]} : r \in DOMAIN grid}

\* C15 (state part): during a pass and after it, every point of the result
\* built so far has the value that balance prescribes for the values of
\* the input grid t, and is t's own object (a point that is kept) or an
\* object that t does not refer to; the pass does not fail.
C15_Inv ==
  /\ hPc # "thrown"
  /\ hPc \in {"pass", "test"} =>
       \A ij \in PositionsOf(hRefined) :
          LET out == Elem(hRefined, ij[1], ij[2])
          IN  /\ hHeap[out] = balancePoint(ValuesOf(hHeap, hT), ij[1], ij[2])
              /\ \/ out = Elem(hT, ij[1], ij[2])
                 \/ out \notin AddrsOf(hT)
  /\ hPc = "test" => HasShape(hRefined, hN)
  /\ hPc \in {"loop", "pass", "test"} => HasShape(hT, hN)

\* C15 (step part): a step of a pass leaves t and every object that exists
\* alone, those of t and those computed earlier in the pass; when the pass
\* is over, t becomes its complete result, which the next pass starts from.
C15_Step ==
  /\ hPc = "pass" =>
       /\ hT' = hT
       /\ \A a \in DOMAIN hHeap : hHeap'[a] = hHeap[a]
       /\ ValuesOf(hHeap', hT') = ValuesOf(hHeap, hT)
       /\ \A ij \in PositionsOf(hRefined) :
             Elem(hRefined', ij[1], ij[2]) = Elem(hRefined, ij[1], ij[2])
  /\ hPc = "test" =>
       /\ hT' = hRefined
       /\ ValuesOf(hHeap', hT') = ValuesOf(hHeap, hRefined)
  /\ (hPc = "loop" /\ hPc' = "pass") =>
       /\ hT' = hT
       /\ hHeap' = hHeap
       /\ hRefined' = << >>

\* C15: a balance pass never modifies the grid it is given and computes
\* every point of its result from that grid only; within balanced each
\* pass works on the complete result of the pass before it.
C15_Snapshots == []C15_Inv /\ [][C15_Step]_vars

C15_Witness ==
  /\ hPc = "test"
  /\ hN >= 3
  /\ hR >= 1
  /\ Elem(hRefined, 1, 1) \notin AddrsOf(hT)
  /\ hHeap[Elem(hRefined, 1, 1)].pass = hR + 1
  /\ hHeap[Elem(hT, 1, 1)].pass = hR
  /\ Elem(hRefined, 0, 0) = Elem(hT, 0, 0)

\* The undirected edges between neighbouring positions of the grid
AllEdges(n) ==
  {e \in SUBSET GridPositions(n) :
     \E p \in e : \E q \in e : e = {p, q} /\ AreNeighbors(p, q)}

EdgeOf(d) == {<<d.i, d.j>>, <<d.i_, d.j_>>}

\* The enumeration has visited every edge once and nothing else: one entry
\* per edge, between neighbouring grid positions, sum0 = 3n(n+1)/2.
EdgesEnumerated ==
  /\ sum0 = (3 * nSteps * (nSteps + 1)) \div 2
  /\ Len(dihedrals) = sum0
  /\ {EdgeOf(dihedrals[x]) : x \in DOMAIN dihedrals} = AllEdges(nSteps)
  /\ \A x \in DOMAIN dihedrals : \A y \in DOMAIN dihedrals :
        x # y => EdgeOf(dihedrals[x]) # EdgeOf(dihedrals[y])
  /\ \A x \in DOMAIN dihedrals :
        /\ InGrid(nSteps, dihedrals[x].i, dihedrals[x].j)
        /\ InGrid(nSteps, dihedrals[x].i_, dihedrals[x].j_)

\* The enumeration alone, for every n >= 0, up to the end of the loop.
EdgeEnumeration ==
  /\ pc = "mfinish" => EdgesEnumerated
  /\ pc = "mloop" =>
       /\ Len(dihedrals) = sum0
       /\ \A x \in DOMAIN dihedrals :
             EdgeOf(dihedrals[x]) \in AllEdges(nSteps)

C17_Inv ==
  /\ liveEst <= 1
  /\ liveTubes = mostBentEdges
  /\ pc = "idle" =>
       /\ liveEst = 1
       /\ est = "live"
       /\ estErr = "none"
       /\ metricsErr = "none"
       /\ tracksDisplay
       /\ liveTubes > 0 => displayMode = "wireframe"

\* C17 (step part): a regeneration disposes the patch mesh that is live
\* before it creates the next one; a metrics update ends with the tubes of
\* the update before it disposed and its own tubes, if any, live; a change
\* of a parameter that the patch or the tubes depend on starts the update.
C17_Step ==
  /\ pc = "est" =>
       /\ est = "live" => est' = "disposed"
       /\ liveEst' = 1
  /\ pc = "mfinish" =>
       /\ metricsErr' = "none"
       /\ liveTubes' = mostBentEdges'
       /\ displayMode # "wireframe" => liveTubes' = 0
  /\ (pc = "idle" /\ displayMode' # displayMode) => pc' # "idle"
  /\ (pc = "idle" /\ <<nSteps, triangFn, adjacentShape>>'
                       # <<nSteps, triangFn, adjacentShape>>) => pc' = "est"

\* C17: after any sequence of parameter changes exactly one primary patch
\* mesh is live, every regeneration having disposed the one before; every
\* metrics update disposes the most-bent-edge tubes of the update before
\* it, and tubes exist only while the display mode is wireframe.
C17_MeshLifetimes == []C17_Inv /\ [][C17_Step]_vars

C17_Witness ==
  /\ pc = "idle"
  /\ displayMode = "wireframe"
  /\ nSteps >= 2
  /\ liveEst = 1
  /\ est = "live"
  /\ liveTubes > 1
  /\ liveTubes = mostBentEdges

====
